---- MODULE Spec2Model ----
(***************************************************************************)
(* wasi-preset-args: a model of PresetArgs::run (the module rewrite), of   *)
(* the two functions it synthesizes (wasi_preset_args.args_sizes_get and   *)
(* wasi_preset_args.args_get, executed against a byte-addressed linear     *)
(* memory and a WASI host) and of store_string_at.                         *)
(*                                                                         *)
(* Three specifications share the variables:                              *)
(*   Spec           the synthesized shims called by a guest program        *)
(*   SpecStore      store_string_at on arbitrary strings, bases, offsets   *)
(*   SpecTransform  PresetArgs::run on a family of input modules           *)
(* A variable a specification does not use stays at Idle.                  *)
(***************************************************************************)
EXTENDS Integers, Sequences, FiniteSets, TLC

VARIABLES
    program_name,         \* PresetArgs.program_name: the raw OsString bytes
    args,                 \* PresetArgs.args: Vec<Vec<u8>> as stored by new()
    host_args,            \* the argument strings the WASI host holds
    mem,                  \* the module's first linear memory, byte-addressed
    saved_original_argc,  \* the value of the global run() adds
    caller,               \* the pointers the guest program passes to the shims
    last,                 \* the most recent shim call (history)
    st,                   \* SpecStore: the store_string_at call (history)
    module,               \* SpecTransform: the walrus::Module run() rewrites
    call_graph,           \* CallGraph.callee_to_uses
    run,                  \* run()'s position, its locals and its error
    input                 \* the module as it was handed to run() (history)

Idle == "idle"

(***************************************************************************)
(* Bounds and input families.                                              *)
(***************************************************************************)
MaxArgs == 2          \* preset lists of up to this many arguments
MaxHostArgs == 2      \* host argument lists of up to this many arguments
MaxStoreLen == 15     \* SpecStore: strings of up to this many bytes
MaxCalls == 2         \* SpecTransform: call instructions per function body

\* Raw program names (OsString): "p", "prog", and one byte that is not UTF-8.
ProgramNames == { <<112>>, <<112, 114, 111, 103>>, <<255>> }

\* Raw preset arguments (OsString): "--foo", "bar", and "\xC3\xA9\xFF\xFF" (a
\* valid two-byte sequence followed by two bytes that are not UTF-8).
RawArgStrings ==
    { <<45, 45, 102, 111, 111>>, <<98, 97, 114>>, <<195, 169, 255, 255>> }

\* Host argument lists: the prefixes of "x","y","x",... and of "hello","x","hello",...
HostPattern(v, j) ==
    IF v = 0 THEN <<120 + ((j - 1) % 2)>>
    ELSE IF j % 2 = 1 THEN <<104, 101, 108, 108, 111>> ELSE <<120>>

HostArgLists ==
    { [j \in 1..k |-> HostPattern(v, j)] : k \in 0..MaxHostArgs, v \in 0..1 }

\* What the linear memory holds before the guest's first call.
FillBytes == {0, 170}

\* The errno values the host's imports return (0 is __WASI_ERRNO_SUCCESS).
HostErrnos == {0, 28, 61}

RECURSIVE SeqsUpTo(_, _)
SeqsUpTo(S, n) ==
    IF n = 0 THEN { <<>> }
    ELSE LET shorter == SeqsUpTo(S, n - 1)
         IN  shorter \cup { Append(q, x) : q \in shorter, x \in S }

Max(S) == CHOOSE x \in S : \A y \in S : y <= x

(***************************************************************************)
(* 32-bit integers.  TLC's integers are 32-bit, so an i32 is kept as its   *)
(* signed value and an i64 immediate as its two 32-bit halves.             *)
(***************************************************************************)
MaxI32 == 2147483647
MinI32 == -MaxI32 - 1

\* i32.add: two's complement, wrapping.
I32Add(a, b) ==
    IF a > 0 /\ b > 0 /\ a > MaxI32 - b THEN (a + MinI32) + (b + MinI32)
    ELSE IF a < 0 /\ b < 0 /\ a < MinI32 - b THEN (a - MinI32) + (b - MinI32)
    ELSE a + b

\* (x as u32) reinterpreted as i32.
usize_to_wasm_i32(x) == IF x <= MaxI32 THEN x ELSE (x + MinI32) + MinI32

SignedByte(b) == IF b >= 128 THEN b - 256 ELSE b

\* i64/i32/i16/i8::from_le_bytes; the 16- and 8-bit values then sign-extend
\* to i32 ("as i32").
I32FromLeBytes(c) == c[1] + c[2] * 256 + c[3] * 65536 + SignedByte(c[4]) * 16777216
I16FromLeBytes(c) == c[1] + SignedByte(c[2]) * 256
I8FromLeBytes(c) == SignedByte(c[1])

\* The low n bytes of the two's complement value v, little-endian.
LeBytes(v, n) == [i \in 1..n |-> (v \div (256 ^ (i - 1))) % 256]

(***************************************************************************)
(* Linear memory.                                                          *)
(***************************************************************************)
\* bs[1..] go to m[a], m[a+1], ...
RECURSIVE StoreBytes(_, _, _)
StoreBytes(m, a, bs) ==
    IF bs = <<>> THEN m
    ELSE StoreBytes(IF a \in DOMAIN m THEN [m EXCEPT ![a] = Head(bs)] ELSE m,
                    a + 1, Tail(bs))

LoadBytes(m, a, n) == [i \in 1..n |-> m[a + i - 1]]

LoadI32(m, a) == I32FromLeBytes(LoadBytes(m, a, 4))

StoreI32(m, a, v) == StoreBytes(m, a, LeBytes(v, 4))

(***************************************************************************)
(* PresetArgs: construction and the size helpers.                          *)
(***************************************************************************)
\* The UTF-8 encoding of U+FFFD, which to_string_lossy puts in place of a
\* byte that is not part of a valid sequence.
ReplacementChar == <<239, 191, 189>>

IsCont(b) == b >= 128 /\ b <= 191

\* OsStr::to_string_lossy().as_bytes() on Unix, for inputs made of ASCII,
\* two-byte sequences (lead 0xC2..0xDF) and bytes that are valid nowhere.
RECURSIVE ToStringLossy(_)
ToStringLossy(s) ==
    IF s = <<>> THEN <<>>
    ELSE IF s[1] < 128 THEN <<s[1]>> \o ToStringLossy(Tail(s))
    ELSE IF s[1] >= 194 /\ s[1] <= 223 /\ Len(s) >= 2 /\ IsCont(s[2])
         THEN <<s[1], s[2]>> \o ToStringLossy(Tail(Tail(s)))
    ELSE ReplacementChar \o ToStringLossy(Tail(s))

\* PresetArgs::new: every argument is stored as its lossy UTF-8 bytes; the
\* program name is kept as given.
new(name, raw_args) ==
    [program_name |-> name,
     args |-> [i \in 1..Len(raw_args) |-> ToStringLossy(raw_args[i])]]

RECURSIVE SumLenPlusOne(_)
SumLenPlusOne(as) ==
    IF as = <<>> THEN 0 ELSE (Len(Head(as)) + 1) + SumLenPlusOne(Tail(as))

preset_args_size(as) == SumLenPlusOne(as)

\* self.program_name.len() is the length of the raw OsString.
argv_buf_size(name, as) == Len(name) + 1 + preset_args_size(as)

pointer_size == 4

argv_buf_size_value(name, as) == usize_to_wasm_i32(argv_buf_size(name, as))

\* The running offset of preset argument i (1-based) in add_args_get's loop.
PresetOffset(as, i) == preset_args_size(SubSeq(as, 1, i - 1))

(***************************************************************************)
(* store_string_at: the store instructions it emits, and their execution.  *)
(***************************************************************************)
ChunkSizes == <<8, 4, 2, 1>>

\* ChunkValue with the 16-bit chunk stored by a full i32.store.
ChunkValueWideStore(chunk) ==
    CASE Len(chunk) = 8 ->
            [kind |-> "I64", lo |-> I32FromLeBytes(SubSeq(chunk, 1, 4)),
             hi |-> I32FromLeBytes(SubSeq(chunk, 5, 8))]
      [] Len(chunk) = 4 ->
            [kind |-> "I32", lo |-> I32FromLeBytes(chunk), hi |-> 0]
      [] Len(chunk) = 2 ->
            [kind |-> "I32", lo |-> I16FromLeBytes(chunk), hi |-> 0]
      [] Len(chunk) = 1 ->
            [kind |-> "I32_8", lo |-> I8FromLeBytes(chunk), hi |-> 0]

\* The immediate and the store kind of one chunk.
ChunkValue(chunk) ==
    CASE Len(chunk) = 8 ->
            [kind |-> "I64", lo |-> I32FromLeBytes(SubSeq(chunk, 1, 4)),
             hi |-> I32FromLeBytes(SubSeq(chunk, 5, 8))]
      [] Len(chunk) = 4 ->
            [kind |-> "I32", lo |-> I32FromLeBytes(chunk), hi |-> 0]
      [] Len(chunk) = 2 ->
            [kind |-> "I32_16", lo |-> I16FromLeBytes(chunk), hi |-> 0]
      [] Len(chunk) = 1 ->
            [kind |-> "I32_8", lo |-> I8FromLeBytes(chunk), hi |-> 0]

\* One emitted store: base + const(offset + written) <- const(v), of the kind.
StoreInstr(chunk, at) ==
    [addr_const |-> usize_to_wasm_i32(at), value |-> ChunkValue(chunk)]

RECURSIVE EmitChunks(_, _, _, _)
EmitChunks(s, offset, written, sizes) ==
    IF sizes = <<>> THEN <<>>
    ELSE LET chunk_size == Head(sizes)
             chunk_count == (Len(s) - written) \div chunk_size
             emitted == [j \in 1..chunk_count |->
                        StoreInstr(SubSeq(s, written + (j - 1) * chunk_size + 1,
                                          written + j * chunk_size),
                                   offset + written + (j - 1) * chunk_size)]
         IN  emitted \o EmitChunks(s, offset, written + chunk_count * chunk_size, Tail(sizes))

store_string_at(s, offset) == EmitChunks(s, offset, 0, ChunkSizes)

\* The bytes a store of the given kind writes: the low bytes of its operand.
StoredBytes(value) ==
    CASE value.kind = "I64" -> LeBytes(value.lo, 4) \o LeBytes(value.hi, 4)
      [] value.kind = "I32" -> LeBytes(value.lo, 4)
      [] value.kind = "I32_16" -> LeBytes(value.lo, 2)
      [] value.kind = "I32_8" -> LeBytes(value.lo, 1)

\* The address range one emitted store writes, base being the local's value.
StoreAddrs(base, ins) ==
    LET a == I32Add(base, ins.addr_const)
    IN  a .. (a + Len(StoredBytes(ins.value)) - 1)

RECURSIVE ExecStores(_, _, _)
ExecStores(m, base, instrs) ==
    IF instrs = <<>> THEN m
    ELSE ExecStores(StoreBytes(m, I32Add(base, Head(instrs).addr_const),
                               StoredBytes(Head(instrs).value)),
                    base, Tail(instrs))

(***************************************************************************)
(* The WASI host: the original imports.  A failing call writes nothing.    *)
(***************************************************************************)
HostBufSize(h) == SumLenPlusOne(h)

\* Where host argument j (1-based) starts in the host's buffer.
HostOffset(h, j) == SumLenPlusOne(SubSeq(h, 1, j - 1))

wasi_snapshot_preview1_args_sizes_get(m, h, argc_ptr, argv_buf_size_ptr, errno) ==
    IF errno = 0
    THEN StoreI32(StoreI32(m, argc_ptr, Len(h)), argv_buf_size_ptr, HostBufSize(h))
    ELSE m

RECURSIVE HostWriteArgs(_, _, _, _, _)
HostWriteArgs(m, h, argv, argv_buf, j) ==
    IF j > Len(h) THEN m
    ELSE LET at == argv_buf + HostOffset(h, j)
             m1 == StoreBytes(m, at, h[j] \o <<0>>)
             m2 == StoreI32(m1, argv + pointer_size * (j - 1), at)
         IN  HostWriteArgs(m2, h, argv, argv_buf, j + 1)

wasi_snapshot_preview1_args_get(m, h, argv, argv_buf, errno) ==
    IF errno = 0 THEN HostWriteArgs(m, h, argv, argv_buf, 1) ELSE m

(***************************************************************************)
(* The function add_args_sizes_get builds: wasi_preset_args.args_sizes_get *)
(***************************************************************************)
\* if (argc == 0): *argc_ptr = 1 + N; *argv_buf_size_ptr = argv_buf_size
SizesNoHostArgs(m, argc_ptr, argv_buf_size_ptr) ==
    LET m1 == StoreI32(m, argc_ptr, usize_to_wasm_i32(1 + Len(args)))
    IN  StoreI32(m1, argv_buf_size_ptr,
                 usize_to_wasm_i32(argv_buf_size(program_name, args)))

\* else: *argc_ptr = argc + N; *argv_buf_size_ptr += argv_buf_size_value
SizesHostArgs(m, argc, argc_ptr, argv_buf_size_ptr) ==
    LET m1 == StoreI32(m, argc_ptr, I32Add(argc, usize_to_wasm_i32(Len(args))))
    IN  StoreI32(m1, argv_buf_size_ptr,
                 I32Add(LoadI32(m1, argv_buf_size_ptr),
                        argv_buf_size_value(program_name, args)))

\* The value the shim returns when the original returned err.
SizesResult(err) == IF err = 0 THEN 0 ELSE err

\* shim_args_sizes_get setting saved_original_argc before it looks at err.
shim_args_sizes_get_always_saves(m, saved, argc_ptr, argv_buf_size_ptr, errno) ==
    LET m1 == wasi_snapshot_preview1_args_sizes_get(m, host_args, argc_ptr,
                                                    argv_buf_size_ptr, errno)
        argc == LoadI32(m1, argc_ptr)
    IN  IF errno = 0
        THEN [mem |-> IF argc = 0
                      THEN SizesNoHostArgs(m1, argc_ptr, argv_buf_size_ptr)
                      ELSE SizesHostArgs(m1, argc, argc_ptr, argv_buf_size_ptr),
              saved |-> argc,
              ret |-> SizesResult(errno)]
        ELSE [mem |-> m1, saved |-> argc, ret |-> SizesResult(errno)]

shim_args_sizes_get(m, saved, argc_ptr, argv_buf_size_ptr, errno) ==
    LET m1 == wasi_snapshot_preview1_args_sizes_get(m, host_args, argc_ptr,
                                                    argv_buf_size_ptr, errno)
        err == errno
    IN  IF err = 0
        THEN LET argc == LoadI32(m1, argc_ptr)
             IN  [mem |-> IF argc = 0
                          THEN SizesNoHostArgs(m1, argc_ptr, argv_buf_size_ptr)
                          ELSE SizesHostArgs(m1, argc, argc_ptr, argv_buf_size_ptr),
                  saved |-> argc,
                  ret |-> SizesResult(err)]
        ELSE [mem |-> m1, saved |-> saved, ret |-> SizesResult(err)]

(***************************************************************************)
(* The function add_args_get builds: wasi_preset_args.args_get             *)
(***************************************************************************)
\* if (saved_original_argc == 0): the program name goes behind the presets.
ProgramNameBranch(m, argv, argv_buf) ==
    LET m1 == ExecStores(m, argv_buf,
                         store_string_at(ToStringLossy(program_name),
                                         preset_args_size(args)))
    IN  StoreI32(m1, argv,
                 I32Add(argv_buf, usize_to_wasm_i32(preset_args_size(args))))

\* ExtraArgv advancing by N bytes instead of N pointers.
ExtraArgvUnscaled(argv) == I32Add(argv, usize_to_wasm_i32(Len(args)))

\* char **extra_argv = argv + N * pointer_size
ExtraArgv(argv) == I32Add(argv, usize_to_wasm_i32(Len(args) * pointer_size))

\* HostArgvBuf skipping the preset bytes only.
HostArgvBufPresetOnly(argv_buf) ==
    I32Add(argv_buf, usize_to_wasm_i32(preset_args_size(args)))

\* The buffer handed to the original args_get.
HostArgvBuf(argv_buf) == I32Add(argv_buf, argv_buf_size_value(program_name, args))

\* 2. Write argv[1..<1+args.len()]: the bytes and the pointer of each preset.
RECURSIVE WritePresets(_, _, _, _)
WritePresets(m, argv, argv_buf, i) ==
    IF i > Len(args) THEN m
    ELSE LET offset == PresetOffset(args, i)
             m1 == ExecStores(m, argv_buf, store_string_at(args[i], offset))
             m2 == StoreI32(m1, I32Add(argv, usize_to_wasm_i32(i * pointer_size)),
                            I32Add(argv_buf, usize_to_wasm_i32(offset)))
         IN  WritePresets(m2, argv, argv_buf, i + 1)

\* AfterOriginal without the early return: the presets are written and 0 is
\* returned whatever the original returned.
AfterOriginalFallThrough(m, argv, argv_buf, err) ==
    [mem |-> WritePresets(StoreI32(m, argv, LoadI32(m, ExtraArgv(argv))),
                          argv, argv_buf, 1),
     ret |-> 0]

\* The else branch once the original returned err: argv[0] = extra_argv[0]
\* and fall through to the presets, or return err at once.
AfterOriginal(m, argv, argv_buf, err) ==
    IF err = 0
    THEN [mem |-> WritePresets(StoreI32(m, argv, LoadI32(m, ExtraArgv(argv))),
                               argv, argv_buf, 1),
          ret |-> 0]
    ELSE [mem |-> m, ret |-> err]

shim_args_get(m, saved, argv, argv_buf, errno) ==
    IF saved = 0
    THEN [mem |-> WritePresets(ProgramNameBranch(m, argv, argv_buf), argv, argv_buf, 1),
          ret |-> 0, host_called |-> FALSE, host_err |-> 0]
    ELSE LET m1 == wasi_snapshot_preview1_args_get(m, host_args, ExtraArgv(argv),
                                                   HostArgvBuf(argv_buf), errno)
             r == AfterOriginal(m1, argv, argv_buf, errno)
         IN  [mem |-> r.mem, ret |-> r.ret, host_called |-> TRUE, host_err |-> errno]

(***************************************************************************)
(* Spec: a guest program calling the two shims, in any order.              *)
(***************************************************************************)
LossyLens(S) == { Len(ToStringLossy(s)) : s \in S }

ArgvCap == pointer_size * (MaxHostArgs + MaxArgs + 1)

BufCap ==
    (Max(LossyLens(ProgramNames)) + 1)
    + (Max({ Len(s) : s \in ProgramNames }) + 1)
    + MaxArgs * (Max(LossyLens(RawArgStrings)) + 1)
    + MaxHostArgs * 6 + 8

\* The guest's pointers: four disjoint regions, none of them aligned (the
\* shims' loads and stores carry align 1).
Callers ==
    { [argc_ptr |-> d, argv_buf_size_ptr |-> d + 4, argv |-> d + 8,
       argv_buf |-> 8 + ArgvCap + 3 * d] : d \in {1} }

MemSize == 8 + ArgvCap + 3 + BufCap

\* last: op, the call; ret, what the shim returned; host_called and host_err,
\* whether it called the original and what that returned; after_sizes, whether
\* the call before it was an args_sizes_get that returned 0; wrote, whether the
\* call changed a byte of memory.
NoCall ==
    [op |-> "none", ret |-> 0, host_called |-> FALSE, host_err |-> 0,
     after_sizes |-> FALSE, wrote |-> FALSE]

Init ==
    /\ \E name \in ProgramNames, raw \in SeqsUpTo(RawArgStrings, MaxArgs) :
          /\ program_name = new(name, raw).program_name
          /\ args = new(name, raw).args
    /\ host_args \in HostArgLists
    /\ \E b \in FillBytes : mem = [a \in 0..(MemSize - 1) |-> b]
    /\ saved_original_argc = 0
    /\ caller \in Callers
    /\ last = NoCall
    /\ st = Idle
    /\ module = Idle /\ call_graph = Idle /\ run = Idle /\ input = Idle

CallArgsSizesGet ==
    \E errno \in HostErrnos :
        LET r == shim_args_sizes_get(mem, saved_original_argc, caller.argc_ptr,
                                     caller.argv_buf_size_ptr, errno)
        IN  /\ mem' = r.mem
            /\ saved_original_argc' = r.saved
            /\ last' = [op |-> "args_sizes_get", ret |-> r.ret, host_called |-> TRUE,
                        host_err |-> errno, after_sizes |-> FALSE,
                        wrote |-> (r.mem # mem)]
            /\ UNCHANGED <<program_name, args, host_args, caller, st>>
            /\ UNCHANGED <<module, call_graph, run, input>>

\* The original args_get is reached only when saved_original_argc /= 0.
CallArgsGet ==
    \E errno \in IF saved_original_argc = 0 THEN {0} ELSE HostErrnos :
        LET r == shim_args_get(mem, saved_original_argc, caller.argv,
                               caller.argv_buf, errno)
        IN  /\ mem' = r.mem
            /\ last' = [op |-> "args_get", ret |-> r.ret,
                        host_called |-> r.host_called, host_err |-> r.host_err,
                        after_sizes |-> (last.op = "args_sizes_get" /\ last.ret = 0),
                        wrote |-> (r.mem # mem)]
            /\ UNCHANGED <<program_name, args, host_args, saved_original_argc,
                           caller, st>>
            /\ UNCHANGED <<module, call_graph, run, input>>

Next == CallArgsSizesGet \/ CallArgsGet

vars ==
    <<program_name, args, host_args, mem, saved_original_argc, caller, last, st,
      module, call_graph, run, input>>

Spec == Init /\ [][Next]_vars

(***************************************************************************)
(* SpecStore: one store_string_at call on a string, a base and an offset.  *)
(***************************************************************************)
\* Strings of every length up to MaxStoreLen: ascending low bytes, descending
\* high bytes (negative as i8/i16/i32/i64), and the two mixed.
StorePattern(p, i) ==
    CASE p = 0 -> i
      [] p = 1 -> 256 - i
      [] p = 2 -> IF i % 2 = 1 THEN 128 + i ELSE 127 - i

StoreStrings ==
    { [i \in 1..n |-> StorePattern(p, i)] : n \in 0..MaxStoreLen, p \in 0..2 }

StoreBases == {0, 3}
StoreOffsets == {0, 5}

StoreMemSize == Max(StoreBases) + Max(StoreOffsets) + MaxStoreLen + 8

InitStore ==
    /\ st \in [s : StoreStrings, base : StoreBases, offset : StoreOffsets,
                fill : FillBytes, done : {FALSE}]
    /\ mem = [a \in 0..(StoreMemSize - 1) |-> st.fill]
    /\ program_name = Idle /\ args = Idle /\ host_args = Idle
    /\ saved_original_argc = 0 /\ caller = Idle /\ last = NoCall
    /\ module = Idle /\ call_graph = Idle /\ run = Idle /\ input = Idle

\* The emitted stores run with the local `base` holding st.base.
RunStoreStringAt ==
    /\ ~st.done
    /\ mem' = ExecStores(mem, st.base, store_string_at(st.s, st.offset))
    /\ st' = [st EXCEPT !.done = TRUE]
    /\ UNCHANGED <<program_name, args, host_args, saved_original_argc, caller, last>>
    /\ UNCHANGED <<module, call_graph, run, input>>

NextStore == RunStoreStringAt

SpecStore == InitStore /\ [][NextStore]_vars

(***************************************************************************)
(* walrus::Module, as far as run() reads and writes it.                    *)
(*   funcs    function id -> [kind, import, ty, name, body]; body is the   *)
(*            sequence of the call instructions' targets, in visit order   *)
(*   imports  import id -> [module, name, kind, func]                      *)
(*   exports  sequence of [name, item, func]                               *)
(*   elements sequence of segments, each a sequence of members             *)
(*   globals  sequence of [ty, mutable, init]                              *)
(*   memories the number of linear memories;  data: the data segments      *)
(***************************************************************************)
None == -1

WasiModuleName == "wasi_snapshot_preview1"
DummyModuleName == "wasi_preset_args"

Min(S) == CHOOSE x \in S : \A y \in S : x <= y

\* module.imports.find(module, name), then the import's kind.
get_import_function(m, mod, name) ==
    LET ids == { i \in DOMAIN m.imports :
                    m.imports[i].module = mod /\ m.imports[i].name = name }
    IN  IF ids = {} THEN [ok |-> FALSE, error |-> "not found", func |-> None]
        ELSE IF m.imports[Min(ids)].kind = "func"
             THEN [ok |-> TRUE, error |-> "", func |-> m.imports[Min(ids)].func]
             ELSE [ok |-> FALSE, error |-> "is not a function", func |-> None]

\* module.add_import_func(module, name, ty): a new imported function and its
\* import entry.
add_import_func(m, mod, name, ty) ==
    [module |->
        [m EXCEPT
            !.funcs = (m.next_func :>
                          [kind |-> "import", import |-> m.next_import, ty |-> ty,
                           name |-> "", body |-> <<>>]) @@ @,
            !.imports = (m.next_import :>
                            [module |-> mod, name |-> name, kind |-> "func",
                             func |-> m.next_func]) @@ @,
            !.next_func = @ + 1,
            !.next_import = @ + 1],
     func |-> m.next_func,
     import |-> m.next_import]

\* module.globals.add_local(ValType::I32, true, InitExpr::Value(Value::I32(0)))
add_saved_original_argc(m) ==
    [m EXCEPT !.globals = Append(@, [ty |-> "i32", mutable |-> TRUE, init |-> 0])]

\* builder.finish(..): a new local function of the original's type.
add_local_func(m, name, ty, body) ==
    [m EXCEPT
        !.funcs = (m.next_func :>
                      [kind |-> "local", import |-> None, ty |-> ty, name |-> name,
                       body |-> body]) @@ @,
        !.next_func = @ + 1]

\* delete_import leaving the import entry in place.
keep_import(m, import) == m

\* module.imports.delete(import)
delete_import(m, import) ==
    [m EXCEPT !.imports = [i \in (DOMAIN @) \ {import} |-> @[i]]]

LocalFuncs(m) == { f \in DOMAIN m.funcs : m.funcs[f].kind = "local" }

\* A function the emitted module holds: a local one, or an imported one
\* whose import entry is still there.
Exists(m, f) ==
    /\ f \in DOMAIN m.funcs
    /\ \/ m.funcs[f].kind = "local"
       \/ m.funcs[f].import \in DOMAIN m.imports

(***************************************************************************)
(* call_graph.rs                                                           *)
(***************************************************************************)
\* FunctionUse::Call { caller }, ::InElement { element, index }, ::Export { export }
UseCall(f) == <<"Call", f>>
UseInElement(element, index) == <<"InElement", element, index>>
UseExport(export) == <<"Export", export>>

\* BuiltUses passing over the calls made by functions named as shims.
BuiltUsesSkippingShims(m, c) ==
    { UseCall(f) : f \in { f \in LocalFuncs(m) :
                             /\ m.funcs[f].name \notin { "wasi_preset_args.args_sizes_get",
                                                         "wasi_preset_args.args_get" }
                             /\ \E i \in DOMAIN m.funcs[f].body : m.funcs[f].body[i] = c } }
    \cup UNION { { UseInElement(e, i) :
                      i \in { i \in DOMAIN m.elements[e] : m.elements[e][i] = c } } :
                  e \in DOMAIN m.elements }
    \cup { UseExport(x) : x \in { x \in DOMAIN m.exports :
                                    /\ m.exports[x].item = "func"
                                    /\ m.exports[x].func = c } }

\* The uses build_from records for callee c.
BuiltUses(m, c) ==
    { UseCall(f) : f \in { f \in LocalFuncs(m) :
                             \E i \in DOMAIN m.funcs[f].body : m.funcs[f].body[i] = c } }
    \cup UNION { { UseInElement(e, i) :
                      i \in { i \in DOMAIN m.elements[e] :
                                /\ m.elements[e][i] # None
                                /\ m.elements[e][i] = c } } :
                  e \in DOMAIN m.elements }
    \cup { UseExport(x) : x \in { x \in DOMAIN m.exports :
                                    /\ m.exports[x].item = "func"
                                    /\ m.exports[x].func = c } }

\* build_from collecting the direct calls only.
build_from_calls_only(m) ==
    [c \in { c \in DOMAIN m.funcs : \E u \in BuiltUses(m, c) : u[1] = "Call" } |->
        { u \in BuiltUses(m, c) : u[1] = "Call" }]

\* CallGraph::build_from: callee -> the set of its uses.
build_from(m) ==
    [c \in { c \in DOMAIN m.funcs : BuiltUses(m, c) # {} } |-> BuiltUses(m, c)]

\* CallGraph::get_func_uses, None read as no use.
get_func_uses(g, f) == IF f \in DOMAIN g THEN g[f] ELSE {}

\* ReplaceCalls stopping after the first call it replaces.
ReplaceFirstCall(body, map) ==
    [i \in DOMAIN body |->
        IF body[i] \in DOMAIN map /\ \A j \in 1..(i - 1) : body[j] \notin DOMAIN map
        THEN map[body[i]] ELSE body[i]]

\* Replacer::visit_call_mut over one body: every call whose target is a key
\* of the map gets the key's image.
ReplaceCalls(body, map) ==
    [i \in DOMAIN body |-> IF body[i] \in DOMAIN map THEN map[body[i]] ELSE body[i]]

\* The keys of the map that have the use u recorded.
KeysUsing(map, g, u) == { from \in DOMAIN map : u \in get_func_uses(g, from) }

\* ExtendGraph adding no edge.
ExtendGraphNot(map, g) == g

\* "Add replaced use edges to the graph": the uses of every `from` are
\* recorded under its `to` as well.
ExtendGraph(map, g) ==
    LET added(c) == UNION { get_func_uses(g, from) :
                              from \in { k \in DOMAIN map : map[k] = c } }
        callees == DOMAIN g \cup { map[k] : k \in { k \in DOMAIN map : k \in DOMAIN g } }
    IN  [c \in callees |-> get_func_uses(g, c) \cup added(c)]

\* replace_func_use(map, module, call_graph)
replace_func_use(map, m, g) ==
    LET uses == UNION { get_func_uses(g, from) : from \in DOMAIN map }
        func_worklist == { u[2] : u \in { u \in uses : u[1] = "Call" } }
        to(u) == map[CHOOSE from \in KeysUsing(map, g, u) : TRUE]
    IN  [module |->
            [m EXCEPT
                !.elements =
                    [e \in DOMAIN m.elements |->
                        [i \in DOMAIN m.elements[e] |->
                            IF KeysUsing(map, g, UseInElement(e, i)) # {}
                            THEN to(UseInElement(e, i)) ELSE m.elements[e][i]]],
                !.exports =
                    [x \in DOMAIN m.exports |->
                        IF KeysUsing(map, g, UseExport(x)) # {}
                        THEN [m.exports[x] EXCEPT !.func = to(UseExport(x))]
                        ELSE m.exports[x]],
                !.funcs =
                    [f \in DOMAIN m.funcs |->
                        IF f \in func_worklist
                        THEN [m.funcs[f] EXCEPT
                                 !.body = ReplaceCalls(m.funcs[f].body, map)]
                        ELSE m.funcs[f]]],
         call_graph |-> ExtendGraph(map, g)]

(***************************************************************************)
(* PresetArgs::run, one step per statement group.                          *)
(***************************************************************************)
\* Phase1Map without the args_get entry.
Phase1MapSizesOnly(original_args_sizes_get, dummy_args_sizes_get, original_args_get, dummy_args_get) ==
    (original_args_sizes_get :> dummy_args_sizes_get)

\* The two maps run() hands to replace_func_use.
Phase1Map(original_args_sizes_get, dummy_args_sizes_get, original_args_get, dummy_args_get) ==
    (original_args_sizes_get :> dummy_args_sizes_get) @@ (original_args_get :> dummy_args_get)

Phase2Map(dummy_args_sizes_get, new_args_sizes_get, dummy_args_get, new_args_get) ==
    (dummy_args_sizes_get :> new_args_sizes_get) @@ (dummy_args_get :> new_args_get)

\* The call instructions of a shim: one call, of the original import.
ShimBody(original) == <<original>>

\* add_args_sizes_get / add_args_get as far as the module goes: look the
\* original up, require a memory, add the function.
add_shim(m, import_name, func_name) ==
    LET original == get_import_function(m, WasiModuleName, import_name)
    IN  IF ~original.ok THEN [ok |-> FALSE, error |-> original.error, module |-> m,
                               func |-> None]
        ELSE IF m.memories = 0
             THEN [ok |-> FALSE, error |-> "no memory", module |-> m, func |-> None]
        ELSE [ok |-> TRUE, error |-> "",
              module |-> add_local_func(m, func_name, m.funcs[original.func].ty,
                                        ShimBody(original.func)),
              func |-> m.next_func]

RunStart ==
    [pc |-> "add_global", error |-> "",
     saved_original_argc |-> None,
     original_args_sizes_get |-> None, dummy_args_sizes_get |-> None,
     dummy_args_sizes_get_import |-> None,
     original_args_get |-> None, dummy_args_get |-> None,
     dummy_args_get_import |-> None,
     new_args_sizes_get |-> None, new_args_get |-> None]

Fail(msg) == [run EXCEPT !.pc = "failed", !.error = msg]

\* What no step of run() touches.
RunFrame ==
    UNCHANGED <<input, program_name, args, host_args, mem, saved_original_argc,
                caller, last, st>>

\* let saved_original_argc = module.globals.add_local(..)
AddGlobal ==
    /\ run.pc = "add_global"
    /\ module' = add_saved_original_argc(module)
    /\ run' = [run EXCEPT !.pc = "locate_args_sizes_get",
                          !.saved_original_argc = Len(module.globals) + 1]
    /\ UNCHANGED call_graph
    /\ RunFrame

\* original_args_sizes_get = get_import_function(..)?; add its dummy import
LocateArgsSizesGet ==
    /\ run.pc = "locate_args_sizes_get"
    /\ LET original == get_import_function(module, WasiModuleName, "args_sizes_get")
           dummy == add_import_func(module, DummyModuleName, "args_sizes_get",
                                    module.funcs[original.func].ty)
       IN  IF ~original.ok
           THEN run' = Fail(original.error) /\ UNCHANGED module
           ELSE /\ module' = dummy.module
                /\ run' = [run EXCEPT !.pc = "locate_args_get",
                                      !.original_args_sizes_get = original.func,
                                      !.dummy_args_sizes_get = dummy.func,
                                      !.dummy_args_sizes_get_import = dummy.import]
    /\ UNCHANGED call_graph
    /\ RunFrame

\* original_args_get = get_import_function(..)?; add its dummy import
LocateArgsGet ==
    /\ run.pc = "locate_args_get"
    /\ LET original == get_import_function(module, WasiModuleName, "args_get")
           dummy == add_import_func(module, DummyModuleName, "args_get",
                                    module.funcs[original.func].ty)
       IN  IF ~original.ok
           THEN run' = Fail(original.error) /\ UNCHANGED module
           ELSE /\ module' = dummy.module
                /\ run' = [run EXCEPT !.pc = "phase1",
                                      !.original_args_get = original.func,
                                      !.dummy_args_get = dummy.func,
                                      !.dummy_args_get_import = dummy.import]
    /\ UNCHANGED call_graph
    /\ RunFrame

\* call_graph = build_from(module); replace the originals' uses by the dummies
Phase1 ==
    /\ run.pc = "phase1"
    /\ LET r == replace_func_use(
                    Phase1Map(run.original_args_sizes_get, run.dummy_args_sizes_get,
                              run.original_args_get, run.dummy_args_get),
                    module, build_from(module))
       IN  module' = r.module /\ call_graph' = r.call_graph
    /\ run' = [run EXCEPT !.pc = "add_args_sizes_get"]
    /\ RunFrame

\* new_args_sizes_get = self.add_args_sizes_get(module, saved_original_argc)?
AddArgsSizesGet ==
    /\ run.pc = "add_args_sizes_get"
    /\ LET r == add_shim(module, "args_sizes_get", "wasi_preset_args.args_sizes_get")
       IN  IF ~r.ok
           THEN run' = Fail(r.error) /\ UNCHANGED module
           ELSE /\ module' = r.module
                /\ run' = [run EXCEPT !.pc = "add_args_get",
                                      !.new_args_sizes_get = r.func]
    /\ UNCHANGED call_graph
    /\ RunFrame

\* new_args_get = self.add_args_get(module, saved_original_argc)?
AddArgsGet ==
    /\ run.pc = "add_args_get"
    /\ LET r == add_shim(module, "args_get", "wasi_preset_args.args_get")
       IN  IF ~r.ok
           THEN run' = Fail(r.error) /\ UNCHANGED module
           ELSE /\ module' = r.module
                /\ run' = [run EXCEPT !.pc = "phase2", !.new_args_get = r.func]
    /\ UNCHANGED call_graph
    /\ RunFrame

\* replace the dummies' uses by the shims
Phase2 ==
    /\ run.pc = "phase2"
    /\ LET r == replace_func_use(
                    Phase2Map(run.dummy_args_sizes_get, run.new_args_sizes_get,
                              run.dummy_args_get, run.new_args_get),
                    module, call_graph)
       IN  module' = r.module /\ call_graph' = r.call_graph
    /\ run' = [run EXCEPT !.pc = "delete_dummies"]
    /\ RunFrame

\* module.imports.delete(dummy_*_import); Ok(())
DeleteDummies ==
    /\ run.pc = "delete_dummies"
    /\ module' = delete_import(delete_import(module, run.dummy_args_sizes_get_import),
                               run.dummy_args_get_import)
    /\ run' = [run EXCEPT !.pc = "done"]
    /\ UNCHANGED call_graph
    /\ RunFrame

(***************************************************************************)
(* SpecTransform: run() on a family of input modules.                      *)
(***************************************************************************)
\* The input's function ids: the two WASI imports, a third import, two
\* local functions.
Ids == [args_sizes_get |-> 0, args_get |-> 1, fd_write |-> 2, f1 |-> 3, f2 |-> 4]

WasiType == "(i32,i32)->i32"

\* How the module imports a WASI name: as a function, as something else, or
\* not at all.
ImportConfigs ==
    { <<"func", "func">>, <<"absent", "func">>, <<"other", "func">>,
      <<"func", "absent">>, <<"func", "other">> }

\* The functions a body, an element segment or an export of the input may name.
Targets(cfg) ==
    { Ids.fd_write, Ids.f1 }
    \cup (IF cfg[1] = "func" THEN { Ids.args_sizes_get } ELSE {})
    \cup (IF cfg[2] = "func" THEN { Ids.args_get } ELSE {})

ElementChoices ==
    { <<>>,
      << <<Ids.args_sizes_get, Ids.args_get>> >>,
      << <<Ids.args_get>>, <<None, Ids.f1, Ids.args_get>> >>,
      << <<Ids.f1, Ids.args_sizes_get>>, <<Ids.args_sizes_get>> >> }

ExportChoices ==
    { <<>>,
      << [name |-> "args_sizes_get", item |-> "func", func |-> Ids.args_sizes_get] >>,
      << [name |-> "memory", item |-> "memory", func |-> None],
         [name |-> "args_get", item |-> "func", func |-> Ids.args_get] >>,
      << [name |-> "_start", item |-> "func", func |-> Ids.f1],
         [name |-> "get", item |-> "func", func |-> Ids.args_get],
         [name |-> "get2", item |-> "func", func |-> Ids.args_get] >> }

Range(q) == { q[i] : i \in DOMAIN q }

ImportOf(kind, name, f) ==
    [module |-> WasiModuleName, name |-> name, kind |-> kind,
     func |-> IF kind = "func" THEN f ELSE None]

ImportedFunc(i) ==
    [kind |-> "import", import |-> i, ty |-> WasiType, name |-> "", body |-> <<>>]

LocalFunc(name, body) ==
    [kind |-> "local", import |-> None, ty |-> "()->()", name |-> name, body |-> body]

InputModule(cfg, body1, body2, elements, exports, memories) ==
    [funcs |->
        [f \in ({ Ids.fd_write, Ids.f1, Ids.f2 }
                \cup (IF cfg[1] = "func" THEN { Ids.args_sizes_get } ELSE {})
                \cup (IF cfg[2] = "func" THEN { Ids.args_get } ELSE {})) |->
            IF f = Ids.f1 THEN LocalFunc("f1", body1)
            ELSE IF f = Ids.f2 THEN LocalFunc("f2", body2)
            ELSE ImportedFunc(f)],
     imports |->
        [i \in ({ 2 } \cup (IF cfg[1] = "absent" THEN {} ELSE { 0 })
                     \cup (IF cfg[2] = "absent" THEN {} ELSE { 1 })) |->
            IF i = 0 THEN ImportOf(cfg[1], "args_sizes_get", Ids.args_sizes_get)
            ELSE IF i = 1 THEN ImportOf(cfg[2], "args_get", Ids.args_get)
            ELSE ImportOf("func", "fd_write", Ids.fd_write)],
     exports |-> exports,
     elements |-> elements,
     globals |-> << [ty |-> "i32", mutable |-> TRUE, init |-> 1024] >>,
     memories |-> memories,
     data |-> << [offset |-> 16, bytes |-> <<104, 105, 0>>] >>,
     next_func |-> 5,
     next_import |-> 3]

InputModules ==
    UNION { { InputModule(cfg, body1, body2, elements, exports, memories) :
                body1 \in SeqsUpTo(Targets(cfg) \ { Ids.f1 }, MaxCalls),
                body2 \in SeqsUpTo(Targets(cfg) \ { Ids.f1 }, 1),
                elements \in { e \in ElementChoices :
                                 \A s \in Range(e) : Range(s) \subseteq Targets(cfg) \cup { None } },
                exports \in { x \in ExportChoices :
                                \A r \in Range(x) : r.func \in Targets(cfg) \cup { None } },
                memories \in { 0, 1 } } :
            cfg \in ImportConfigs }

InitTransform ==
    /\ module \in InputModules
    /\ input = module
    /\ call_graph = [c \in {} |-> {}]
    /\ run = RunStart
    /\ program_name = Idle /\ args = Idle /\ host_args = Idle /\ mem = Idle
    /\ saved_original_argc = 0 /\ caller = Idle /\ last = NoCall /\ st = Idle

NextTransform ==
    \/ AddGlobal
    \/ LocateArgsSizesGet
    \/ LocateArgsGet
    \/ Phase1
    \/ AddArgsSizesGet
    \/ AddArgsGet
    \/ Phase2
    \/ DeleteDummies

SpecTransform == InitTransform /\ [][NextTransform]_vars

(***************************************************************************)
(* SpecTwice: run() on an input module, then on what the first run emitted.*)
(***************************************************************************)
ShimNames == { "wasi_preset_args.args_sizes_get", "wasi_preset_args.args_get" }

\* The module a run was given already holds shims: it is a run's output.
SecondRun == \E f \in DOMAIN input.funcs : input.funcs[f].name \in ShimNames

\* module.emit_wasm_file(..) then parse_file(..): the functions are the local
\* ones and those an import entry names.
emit_and_parse(m) ==
    [m EXCEPT !.funcs = [f \in { f \in DOMAIN m.funcs : Exists(m, f) } |-> m.funcs[f]]]

\* The tool is run on the output of its first, successful run.
RunAgain ==
    /\ run.pc = "done"
    /\ ~SecondRun
    /\ module' = emit_and_parse(module)
    /\ input' = emit_and_parse(module)
    /\ run' = RunStart
    /\ call_graph' = [c \in {} |-> {}]
    /\ UNCHANGED <<program_name, args, host_args, mem, saved_original_argc,
                   caller, last, st>>

NextTwice ==
    \/ AddGlobal
    \/ LocateArgsSizesGet
    \/ LocateArgsGet
    \/ Phase1
    \/ AddArgsSizesGet
    \/ AddArgsGet
    \/ Phase2
    \/ DeleteDummies
    \/ RunAgain

SpecTwice == InitTransform /\ [][NextTwice]_vars

(***************************************************************************)
(* Properties of the shims (Spec).                                         *)
(***************************************************************************)
N == Len(args)
K == Len(host_args)

\* argv[j], 0-based, as the guest reads it.
Argv(j) == LoadI32(mem, caller.argv + pointer_size * j)

\* The pointer p addresses the bytes s.
Addresses(p, s) == LoadBytes(mem, p, Len(s)) = s

\* An args_sizes_get call that returned 0, then an args_get call that returned 0.
SizesThenGet == last.op = "args_get" /\ last.ret = 0 /\ last.after_sizes

C2_ProgramNameFirst ==
    (SizesThenGet /\ K = 0) =>
        /\ LoadI32(mem, caller.argc_ptr) = 1 + N
        /\ LoadI32(mem, caller.argv_buf_size_ptr) =
              (Len(program_name) + 1) + SumLenPlusOne(args)
        /\ Argv(0) = caller.argv_buf + SumLenPlusOne(args)
        /\ Addresses(Argv(0), program_name)
        /\ \A i \in 1..N : Addresses(Argv(i), args[i])

\* C2 holds of every program name that is valid UTF-8 (to_string_lossy then
\* keeps its bytes and its length).
C2_Utf8ProgramName ==
    ToStringLossy(program_name) = program_name => C2_ProgramNameFirst

\* C6: the host reports argc > 0 and buffer size B; after shim A returns 0,
\* *argv_buf_size_ptr = B + sum of (|a_i| + 1), the program name not counted.
C6_PresetSizeOnly ==
    (last.op = "args_sizes_get" /\ last.ret = 0 /\ K > 0) =>
        LoadI32(mem, caller.argv_buf_size_ptr) =
            HostBufSize(host_args) + SumLenPlusOne(args)

\* The preset bytes: each preset argument followed by a NUL terminator.
RECURSIVE PresetBytes(_)
PresetBytes(as) ==
    IF as = <<>> THEN <<>> ELSE Head(as) \o <<0>> \o PresetBytes(Tail(as))

\* C7: whatever the memory held, after shim B returns 0 the bytes at
\* [argv_buf, argv_buf + preset size) are the preset bytes, NUL terminators
\* included, and in the program-name branch the name written at argv_buf +
\* preset size is followed by a NUL byte.
C7_NulTerminated ==
    (last.op = "args_get" /\ last.ret = 0) =>
        /\ Addresses(caller.argv_buf, PresetBytes(args))
        /\ ~last.host_called =>
              mem[caller.argv_buf + SumLenPlusOne(args)
                  + Len(ToStringLossy(program_name))] = 0

\* C9: a shim returns 0 or the non-zero errno the original returned in that
\* call; when the original returns err /= 0 the shim returns err, and shim B
\* then has stored nothing.
C9_ErrnoPropagated ==
    last.op # "none" =>
        /\ last.ret = 0 \/ (last.host_called /\ last.ret = last.host_err)
        /\ (last.host_called /\ last.host_err # 0) =>
              /\ last.ret = last.host_err
              /\ last.op = "args_get" => ~last.wrote

C9_Witness ==
    /\ last.op = "args_get" /\ last.host_called /\ last.host_err # 0
    /\ N > 0

(***************************************************************************)
(* Properties of store_string_at (SpecStore).                              *)
(***************************************************************************)
StoreTarget == (st.base + st.offset) .. (st.base + st.offset + Len(st.s) - 1)

\* C10: the emitted stores write s[0..|s|) to base+offset .. base+offset+|s|-1,
\* each address once, and no address outside that range.
C10_StoresReconstruct ==
    st.done =>
        LET instrs == store_string_at(st.s, st.offset)
        IN  /\ \A a \in DOMAIN mem :
                  mem[a] = IF a \in StoreTarget
                           THEN st.s[a - (st.base + st.offset) + 1]
                           ELSE st.fill
            /\ \A a \in StoreTarget :
                  Cardinality({ i \in DOMAIN instrs :
                                  a \in StoreAddrs(st.base, instrs[i]) }) = 1
            /\ \A i \in DOMAIN instrs : StoreAddrs(st.base, instrs[i]) \subseteq StoreTarget

\* A string that takes one store of every width, high bytes included.
C10_Witness ==
    /\ st.done /\ Len(st.s) = 15 /\ st.s[1] > 127 /\ st.offset > 0 /\ st.base > 0
    /\ { store_string_at(st.s, st.offset)[i].value.kind : i \in 1..4 }
          = {"I64", "I32", "I32_16", "I32_8"}

(***************************************************************************)
(* Properties of run() (SpecTransform).                                    *)
(***************************************************************************)
Done == run.pc = "done"

\* The original imports, as the input module names them.
OriginalOf(name) == get_import_function(input, WasiModuleName, name).func
Originals == { OriginalOf("args_sizes_get"), OriginalOf("args_get") }

\* The shim that stands in for an original.
ShimFor(f) ==
    IF f = OriginalOf("args_sizes_get") THEN run.new_args_sizes_get
    ELSE run.new_args_get

Dummies == { run.dummy_args_sizes_get, run.dummy_args_get }

\* Every function a call, an element slot or a function export of m names.
Referenced(m) ==
    UNION { Range(m.funcs[f].body) : f \in LocalFuncs(m) }
    \cup (UNION { Range(m.elements[e]) : e \in DOMAIN m.elements } \ { None })
    \cup { m.exports[x].func : x \in { x \in DOMAIN m.exports : m.exports[x].item = "func" } }

\* C3: after a successful run every call instruction, element slot and
\* function export that named an original import in the input names the
\* corresponding shim, also where a caller has several such call sites.
C3_UsesRedirected ==
    Done =>
        /\ module.funcs[run.new_args_sizes_get].name = "wasi_preset_args.args_sizes_get"
        /\ module.funcs[run.new_args_get].name = "wasi_preset_args.args_get"
        /\ \A f \in LocalFuncs(input) : \A i \in DOMAIN input.funcs[f].body :
              input.funcs[f].body[i] \in Originals =>
                  module.funcs[f].body[i] = ShimFor(input.funcs[f].body[i])
        /\ \A e \in DOMAIN input.elements : \A i \in DOMAIN input.elements[e] :
              input.elements[e][i] \in Originals =>
                  module.elements[e][i] = ShimFor(input.elements[e][i])
        /\ \A x \in DOMAIN input.exports :
              (input.exports[x].item = "func" /\ input.exports[x].func \in Originals) =>
                  /\ module.exports[x].item = "func"
                  /\ module.exports[x].func = ShimFor(input.exports[x].func)

\* A caller with two call sites of args_get, another caller of an import,
\* element slots and exports naming the originals.
C3_Witness ==
    /\ Done
    /\ input.funcs[Ids.f1].body = <<Ids.args_get, Ids.args_get>>
    /\ input.funcs[Ids.f2].body = <<Ids.args_sizes_get>>
    /\ Len(input.elements) = 2 /\ Len(input.exports) = 3

\* C4: after a successful run a function calls an original import if and
\* only if it is one of the two shims, each shim calling its own original.
C4_OnlyShimsCallOriginals ==
    Done =>
        /\ \A f \in LocalFuncs(module) :
              (Range(module.funcs[f].body) \cap Originals # {})
                  <=> f \in { run.new_args_sizes_get, run.new_args_get }
        /\ module.funcs[run.new_args_sizes_get].body = <<OriginalOf("args_sizes_get")>>
        /\ module.funcs[run.new_args_get].body = <<OriginalOf("args_get")>>

\* A run on a module whose two local functions called both originals.
C4_Witness ==
    /\ Done
    /\ Originals \subseteq Range(input.funcs[Ids.f1].body)
    /\ Range(input.funcs[Ids.f2].body) \cap Originals # {}

\* C5: when the dummy imports are deleted nothing refers to a dummy; after a
\* successful run no import of module "wasi_preset_args" remains and every
\* call, element entry and function export names an existing function.
C5_NoDummyLeft ==
    /\ run.pc = "delete_dummies" => Referenced(module) \cap Dummies = {}
    /\ Done =>
          /\ \A i \in DOMAIN module.imports : module.imports[i].module # DummyModuleName
          /\ \A f \in Referenced(module) : Exists(module, f)

\* The dummies are about to be deleted, and both had uses recorded.
C5_Witness ==
    /\ run.pc = "delete_dummies"
    /\ \A d \in Dummies : get_func_uses(call_graph, d) # {}
    /\ \E u \in get_func_uses(call_graph, run.dummy_args_get) : u[1] = "InElement"
    /\ \E u \in get_func_uses(call_graph, run.dummy_args_get) : u[1] = "Export"

\* C8: whenever run() fails the module is as the input was: no global and no
\* dummy import added, no call, element slot or export redirected.
C8_FailureLeavesInput ==
    run.pc = "failed" =>
        /\ module.globals = input.globals
        /\ module.imports = input.imports
        /\ module.funcs = input.funcs
        /\ module.elements = input.elements
        /\ module.exports = input.exports

\* The functions of the emitted module.
EmittedFuncs(m) == { f \in DOMAIN m.funcs : Exists(m, f) }

\* C11: a successful run changes the module only by additions and by
\* substituting targets: the globals are the input's followed by one mutable
\* i32 global initialised to 0, the functions are the input's plus the two
\* shims, the data segments, the memories and the imports are the input's,
\* and in the input's function bodies, element segments and exports nothing
\* differs except targets that were the original imports.
C11_OnlyAdditions ==
    Done =>
        /\ module.globals =
              Append(input.globals, [ty |-> "i32", mutable |-> TRUE, init |-> 0])
        /\ run.new_args_sizes_get # run.new_args_get
        /\ { run.new_args_sizes_get, run.new_args_get } \cap DOMAIN input.funcs = {}
        /\ EmittedFuncs(module) =
              EmittedFuncs(input) \cup { run.new_args_sizes_get, run.new_args_get }
        /\ module.data = input.data
        /\ module.memories = input.memories
        /\ module.imports = input.imports
        /\ \A f \in DOMAIN input.funcs :
              /\ [module.funcs[f] EXCEPT !.body = <<>>] = [input.funcs[f] EXCEPT !.body = <<>>]
              /\ Len(module.funcs[f].body) = Len(input.funcs[f].body)
              /\ \A i \in DOMAIN input.funcs[f].body :
                    \/ module.funcs[f].body[i] = input.funcs[f].body[i]
                    \/ input.funcs[f].body[i] \in Originals
        /\ Len(module.elements) = Len(input.elements)
        /\ \A e \in DOMAIN input.elements :
              /\ Len(module.elements[e]) = Len(input.elements[e])
              /\ \A i \in DOMAIN input.elements[e] :
                    \/ module.elements[e][i] = input.elements[e][i]
                    \/ input.elements[e][i] \in Originals
        /\ Len(module.exports) = Len(input.exports)
        /\ \A x \in DOMAIN input.exports :
              \/ module.exports[x] = input.exports[x]
              \/ /\ input.exports[x].item = "func" /\ input.exports[x].func \in Originals
                 /\ [module.exports[x] EXCEPT !.func = None]
                       = [input.exports[x] EXCEPT !.func = None]

\* A run on a module whose first function calls fd_write and an original,
\* with a segment holding an empty slot and a memory export.
C11_Witness ==
    /\ Done
    /\ input.funcs[Ids.f1].body = <<Ids.fd_write, Ids.args_get>>
    /\ input.funcs[Ids.f2].body = <<Ids.fd_write>>
    /\ Len(input.elements) = 2 /\ input.elements[2][1] = None
    /\ Len(input.exports) = 2 /\ input.exports[1].item = "memory"

(***************************************************************************)
(* saved_original_argc over sequences of shim calls (Spec).                *)
(***************************************************************************)
\* The step was a shim A call whose original returned 0.
SizesSucceeded == last'.op = "args_sizes_get" /\ last'.host_err = 0

\* C12: saved_original_argc is 0 until a shim A call whose original returned
\* 0, and from then on the host argc that call loaded: such a call sets it to
\* the host's argc, a failed shim A call and every shim B call leave it as it
\* was, and shim B calls the original args_get exactly when it is not 0.
C12_SavedArgcTracksHost ==
    /\ saved_original_argc = 0
    /\ [][ /\ SizesSucceeded => saved_original_argc' = K
           /\ ~SizesSucceeded => saved_original_argc' = saved_original_argc
           /\ last'.op = "args_get" =>
                 (last'.host_called <=> saved_original_argc # 0) ]_vars

\* A shim A call failed after an earlier one had succeeded with host
\* arguments, and the saved argc is still the host's.
C12_Witness ==
    /\ last.op = "args_sizes_get" /\ last.host_err # 0
    /\ K > 0 /\ saved_original_argc = K

(***************************************************************************)
(* The module between phase 1 and the shims (SpecTransform).               *)
(***************************************************************************)
\* The dummy import that stands in for an original during the run.
DummyFor(f) ==
    IF f = OriginalOf("args_sizes_get") THEN run.dummy_args_sizes_get
    ELSE run.dummy_args_get

\* The functions m's element slots and function exports name.
ReferencedOutsideBodies(m) ==
    (UNION { Range(m.elements[e]) : e \in DOMAIN m.elements } \ { None })
    \cup { m.exports[x].func : x \in { x \in DOMAIN m.exports : m.exports[x].item = "func" } }

\* C13: once phase 1 is over and before a shim is built, no call, element
\* slot or function export names an original import, each one that did
\* names the original's dummy; from then on to the end of the run the only
\* functions that call an original are the shims built so far, and no
\* element slot or export names one.
C13_NoOriginalReferenced ==
    /\ run.pc = "add_args_sizes_get" =>
          /\ Referenced(module) \cap Originals = {}
          /\ \A f \in LocalFuncs(input) : \A i \in DOMAIN input.funcs[f].body :
                input.funcs[f].body[i] \in Originals =>
                    module.funcs[f].body[i] = DummyFor(input.funcs[f].body[i])
          /\ \A e \in DOMAIN input.elements : \A i \in DOMAIN input.elements[e] :
                input.elements[e][i] \in Originals =>
                    module.elements[e][i] = DummyFor(input.elements[e][i])
          /\ \A x \in DOMAIN input.exports :
                (input.exports[x].item = "func" /\ input.exports[x].func \in Originals) =>
                    module.exports[x].func = DummyFor(input.exports[x].func)
    /\ run.pc \in {"add_args_get", "phase2", "delete_dummies", "done"} =>
          /\ \A f \in LocalFuncs(module) :
                Range(module.funcs[f].body) \cap Originals # {} =>
                    f \in { run.new_args_sizes_get, run.new_args_get }
          /\ ReferencedOutsideBodies(module) \cap Originals = {}

\* Phase 1 is over on a module whose calls, element slots and exports named
\* both originals.
C13_Witness ==
    /\ run.pc = "add_args_sizes_get"
    /\ input.funcs[Ids.f1].body = <<Ids.args_sizes_get, Ids.args_get>>
    /\ Len(input.elements) = 2 /\ Len(input.exports) = 3

(***************************************************************************)
(* The second run (SpecTwice).                                             *)
(***************************************************************************)
\* The shim of that name the first run built.
FirstShim(name) == CHOOSE f \in DOMAIN input.funcs : input.funcs[f].name = name

FirstShims ==
    { FirstShim("wasi_preset_args.args_sizes_get"), FirstShim("wasi_preset_args.args_get") }

\* C14: run on the output of a successful run, run() does not fail; when it
\* is done no import of module "wasi_preset_args" remains, a function calls
\* an original import if and only if it is one of the second run's two
\* shims, each shim of the first run calls the second run's shim of the same
\* name, no element slot or export names an original, and every function
\* named anywhere exists.
C14_SecondRun ==
    SecondRun =>
        /\ run.pc # "failed"
        /\ Done =>
              /\ \A i \in DOMAIN module.imports :
                    module.imports[i].module # DummyModuleName
              /\ { run.new_args_sizes_get, run.new_args_get } \cap FirstShims = {}
              /\ \A f \in LocalFuncs(module) :
                    (Range(module.funcs[f].body) \cap Originals # {})
                        <=> f \in { run.new_args_sizes_get, run.new_args_get }
              /\ module.funcs[run.new_args_sizes_get].body = <<OriginalOf("args_sizes_get")>>
              /\ module.funcs[run.new_args_get].body = <<OriginalOf("args_get")>>
              /\ module.funcs[FirstShim("wasi_preset_args.args_sizes_get")].body
                    = <<run.new_args_sizes_get>>
              /\ module.funcs[FirstShim("wasi_preset_args.args_get")].body
                    = <<run.new_args_get>>
              /\ ReferencedOutsideBodies(module) \cap Originals = {}
              /\ \A f \in LocalFuncs(input) \ FirstShims :
                    module.funcs[f].body = input.funcs[f].body
              /\ \A f \in Referenced(module) : Exists(module, f)

\* The second run is done on a module whose first function called both
\* shims of the first run, with exports naming the first run's args_get shim.
C14_Witness ==
    /\ SecondRun /\ Done
    /\ Range(input.funcs[Ids.f1].body) = FirstShims
    /\ Len(input.exports) = 3
    /\ input.exports[2].func = FirstShim("wasi_preset_args.args_get")

(***************************************************************************)
(* Where shim B and the original args_get write (Spec).                    *)
(***************************************************************************)
\* [base, base + size)
Bytes(base, size) == base .. (base + size - 1)

\* The addresses of the stores shim B emits for the preset strings.
PresetStoreAddrs ==
    UNION { UNION { StoreAddrs(caller.argv_buf, ins) :
                      ins \in Range(store_string_at(args[i], PresetOffset(args, i))) } :
            i \in 1..N }

\* The addresses of the bytes the original args_get writes for the host's
\* strings into the buffer it is handed.
HostStringAddrs ==
    UNION { Bytes(HostArgvBuf(caller.argv_buf) + HostOffset(host_args, j),
                  Len(host_args[j]) + 1) : j \in 1..K }

====
